---- MODULE Spec2Model ----
\* A model of the ACES data layer: aces/data_processor.py (DataProcessor) and
\* aces/remote_sensing.py (RemoteSensingFeatures).
\*
\* The library is stateless: every operation is a function of its arguments
\* (and of the choices the tf.data runtime and the random source make).  The
\* state is therefore the call being made, the tf.data pipeline it assembled
\* and the values it produced.  Init draws a call from bounded argument sets;
\* one action per operation applies it.
EXTENDS Integers, Sequences, FiniteSets, TLC

VARIABLES
    call,       \* the operation invoked and its arguments
    pipeline,   \* the tf.data pipeline the operation assembled (dataset builders)
    result      \* what the operation returned / what iterating the pipeline yields

vars == <<call, pipeline, result>>

\* ---------------------------------------------------------------- bounds
MaxFiles == 2       \* record files matched by a pattern / in a directory
MaxRecords == 3     \* records over all files of one pattern
MaxBatch == 2       \* batch_size
MaxCountFiles == 2  \* files per directory in calculate_n_samples
MaxCountRecords == 2 \* records per directory in calculate_n_samples
MaxPatch == 2       \* patch side (PATCH_SHAPE_SINGLE)
MaxChannels == 2    \* channels of a tensor handed to random_transform
MaxNames == 4       \* distinct feature / label names
MaxFeatures == 2    \* len(FEATURES)
MaxLabels == 2      \* len(LABELS)

\* ---------------------------------------------------------------- helpers
Min(a, b) == IF a < b THEN a ELSE b

RECURSIVE SumSeq(_)
SumSeq(s) == IF s = <<>> THEN 0 ELSE Head(s) + SumSeq(Tail(s))

RemoveAt(s, i) == SubSeq(s, 1, i - 1) \o SubSeq(s, i + 1, Len(s))

None == [op |-> "none"]

\* The record files of one directory / pattern: file k holds dir[k] records.
\* tf.data.Dataset.list_files raises when nothing matches, so a directory that
\* can be read holds at least one file; a file may hold no record.
Dirs(maxFiles, maxRecords) ==
    UNION { {d \in [1..k -> 0..maxRecords] : SumSeq(d) <= maxRecords} : k \in 1..maxFiles }

\* The serialized records of file f, in file order.
FileRecords(d, f) == [i \in 1..d[f] |-> <<f, i>>]

\* A pipeline element: the records it holds (one before batching, up to
\* batch_size after), the functions mapped over it so far, in order, and for
\* each record the invocations it went through: <<fn, k>> is the k-th call of
\* fn made by its map stage.
Element(rec) == [recs |-> <<rec>>, fns |-> <<>>, calls |-> << <<>> >>]

\* ------------------------------------------------- tf.data stage semantics
\* Each stage maps a sequence of elements to the set of sequences the runtime
\* may deliver.

\* list_files(...).interleave(create_tfrecord_from_file): list_files shuffles
\* the file order and interleave merges the files; each file is read in order.
RECURSIVE Merges(_)
Merges(fs) ==
    IF \A i \in DOMAIN fs : fs[i] = <<>> THEN {<<>>}
    ELSE UNION { { <<Head(fs[i])>> \o m : m \in Merges([fs EXCEPT ![i] = Tail(fs[i])]) }
                 : i \in {j \in DOMAIN fs : fs[j] # <<>>} }

create_tfrecord_from_file(d, f) == [i \in 1..d[f] |-> Element(FileRecords(d, f)[i])]

InterleaveFiles(d) == Merges([f \in DOMAIN d |-> create_tfrecord_from_file(d, f)])

\* tf.data.TFRecordDataset(files): the files one after the other.
RECURSIVE ReadFilesInOrder(_, _)
ReadFilesInOrder(d, f) ==
    IF f > Len(d) THEN <<>>
    ELSE create_tfrecord_from_file(d, f) \o ReadFilesInOrder(d, f + 1)

\* dataset.map(fn): one output per input, in order; fn is called once per
\* element, whatever number of records the element holds.
MapStage(s, fn) ==
    [ i \in DOMAIN s |->
        [ s[i] EXCEPT !.fns = Append(@, fn),
                      !.calls = [r \in DOMAIN @ |-> Append(@[r], <<fn, i>>)] ] ]

\* dataset.shuffle(buffer): the next element is drawn from the first `buffer`
\* elements not yet delivered.
RECURSIVE ShuffleOutcomes(_, _)
ShuffleOutcomes(s, buffer) ==
    IF s = <<>> THEN {<<>>}
    ELSE UNION { { <<s[i]>> \o r : r \in ShuffleOutcomes(RemoveAt(s, i), buffer) }
                 : i \in 1..Min(buffer, Len(s)) }

\* Stacking the elements of one batch: the records of all of them; the
\* functions mapped so far are the same for each.
RECURSIVE ConcatRecs(_)
ConcatRecs(s) == IF s = <<>> THEN <<>> ELSE Head(s).recs \o ConcatRecs(Tail(s))

RECURSIVE ConcatCalls(_)
ConcatCalls(s) == IF s = <<>> THEN <<>> ELSE Head(s).calls \o ConcatCalls(Tail(s))

Collate(s) == [recs |-> ConcatRecs(s), fns |-> s[1].fns, calls |-> ConcatCalls(s)]

\* dataset.batch(batch_size, drop_remainder=True): what the code would do had
\* it asked for the remainder to be dropped.
RECURSIVE BatchDropRemainder(_, _)
BatchDropRemainder(s, b) ==
    IF Len(s) < b THEN <<>>
    ELSE <<Collate(SubSeq(s, 1, b))>> \o BatchDropRemainder(SubSeq(s, b + 1, Len(s)), b)

\* dataset.batch(batch_size): drop_remainder defaults to False.
RECURSIVE BatchStage(_, _)
BatchStage(s, b) ==
    IF s = <<>> THEN <<>>
    ELSE IF Len(s) <= b THEN <<Collate(s)>>
    ELSE <<Collate(SubSeq(s, 1, b))>> \o BatchStage(SubSeq(s, b + 1, Len(s)), b)

\* ----------------------------------------------------- pipeline assembly
ShuffleBuffer == 512
Autotune == -1

Stage(kind, fn, arg) == [kind |-> kind, fn |-> fn, arg |-> arg]

\* kwargs.get(key, default)
Get(kwargs, key, default) == IF key \in DOMAIN kwargs THEN kwargs[key] ELSE default

\* The tupler get_dataset would choose if it tested USE_AI_PLATFORM before
\* IS_DNN.
get_dataset_tupler_ai_first(kwargs) ==
    IF Get(kwargs, "USE_AI_PLATFORM", FALSE)
    THEN "to_tuple_multi_label_ai_platform"
    ELSE IF Get(kwargs, "IS_DNN", FALSE) THEN "to_tuple_dnn" ELSE "to_tuple_multi_label"

\* get_dataset: the parser chosen by the IS_DNN / USE_AI_PLATFORM tests.
get_dataset_parser(kwargs) ==
    IF Get(kwargs, "IS_DNN", FALSE)
    THEN IF Get(kwargs, "USE_AI_PLATFORM", FALSE)
         THEN "parse_tfrecord_dnn"
         ELSE "parse_tfrecord_dnn"
    ELSE IF Get(kwargs, "USE_AI_PLATFORM", FALSE)
         THEN "parse_tfrecord_multi_label"
         ELSE "parse_tfrecord_multi_label"

\* get_dataset: the tupler chosen by the IS_DNN / USE_AI_PLATFORM tests.
get_dataset_tupler(kwargs) ==
    IF Get(kwargs, "IS_DNN", FALSE)
    THEN IF Get(kwargs, "USE_AI_PLATFORM", FALSE)
         THEN "to_tuple_dnn_ai_platform"
         ELSE "to_tuple_dnn"
    ELSE IF Get(kwargs, "USE_AI_PLATFORM", FALSE)
         THEN "to_tuple_multi_label_ai_platform"
         ELSE "to_tuple_multi_label"

\* The stages get_dataset would chain if it mapped random_transform right
\* after the tupler, ahead of shuffle and batch.
get_dataset_stages_augment_first(batch_size, kwargs) ==
    LET source == << Stage("list_files", "", 0),
                     Stage("interleave", "create_tfrecord_from_file", 0) >>
        maps == << Stage("map", get_dataset_parser(kwargs), Autotune),
                   Stage("map", get_dataset_tupler(kwargs), Autotune) >>
        tail == << Stage("shuffle", "", ShuffleBuffer),
                   Stage("batch", "", batch_size),
                   Stage("prefetch", "", Autotune) >>
    IN  IF Get(kwargs, "IS_DNN", FALSE) THEN source \o maps \o tail
        ELSE IF Get(kwargs, "training", FALSE) /\ Get(kwargs, "TRANSFORM_DATA", TRUE)
             THEN source \o maps \o << Stage("map", "random_transform", Autotune) >> \o tail
             ELSE source \o maps \o tail

\* get_dataset: the stages chained onto the dataset, in the order of the code.
get_dataset_stages(batch_size, kwargs) ==
    LET source == << Stage("list_files", "", 0),
                     Stage("interleave", "create_tfrecord_from_file", 0) >>
        common == source \o
                  << Stage("map", get_dataset_parser(kwargs), Autotune),
                     Stage("map", get_dataset_tupler(kwargs), Autotune),
                     Stage("shuffle", "", ShuffleBuffer),
                     Stage("batch", "", batch_size),
                     Stage("prefetch", "", Autotune) >>
    IN  IF Get(kwargs, "IS_DNN", FALSE) THEN common
        ELSE IF Get(kwargs, "training", FALSE) /\ Get(kwargs, "TRANSFORM_DATA", TRUE)
             THEN Append(common, Stage("map", "random_transform", Autotune))
             ELSE common

\* get_dataset: the exception raised while the stages are chained.  Mapping
\* random_transform traces it on the batched elements; behind
\* to_tuple_multi_label_ai_platform the features are a dict, which
\* tf.image.flip_left_right cannot convert to a tensor, and dataset.map raises
\* TypeError: no dataset is returned.
get_dataset_fault(kwargs) ==
    IF /\ ~Get(kwargs, "IS_DNN", FALSE)
       /\ Get(kwargs, "USE_AI_PLATFORM", FALSE)
       /\ Get(kwargs, "training", FALSE) /\ Get(kwargs, "TRANSFORM_DATA", TRUE)
    THEN "TypeError"
    ELSE "none"

\* get_dataset.  With a fault, stages holds the stages the code chained up to
\* and including the one that raised.
get_dataset(batch_size, kwargs) ==
    [ parser |-> get_dataset_parser(kwargs),
      tupler |-> get_dataset_tupler(kwargs),
      stages |-> get_dataset_stages(batch_size, kwargs),
      fault  |-> get_dataset_fault(kwargs) ]

\* _get_dataset: the (parser, split_data) pair of the branch taken.
inner_parser(kwargs) ==
    IF Get(kwargs, "dnn", FALSE) THEN "parse_tfrecord_dnn"
    ELSE IF Get(kwargs, "multi_label_unet", FALSE) THEN "parse_tfrecord_multi_label"
    ELSE "parse_tfrecord"

inner_split_data(kwargs) ==
    IF Get(kwargs, "dnn", FALSE) THEN "to_tuple_dnn"
    ELSE IF Get(kwargs, "multi_label_unet", FALSE) THEN "to_tuple_multi_label"
    ELSE "to_tuple"

\* _get_dataset: depth = kwargs.get('depth', len(labels))
inner_depth(kwargs, labels) == Get(kwargs, "depth", Len(labels))

\* _get_dataset.  In the dnn branch the pipeline is parser, split_data, batch.
\* In the other two branches dataset.interleave(parser) traces the parser on
\* one serialized record: parse_tfrecord is called without its required
\* patch_size, parse_tfrecord_multi_label with a patch_shape keyword it does
\* not have, and the call raises TypeError before any further stage is chained.
get_dataset_inner(batch_size, kwargs, labels) ==
    LET source == << Stage("TFRecordDataset", "", 0) >>
    IN  IF Get(kwargs, "dnn", FALSE)
        THEN [ parser |-> inner_parser(kwargs),
               tupler |-> inner_split_data(kwargs),
               depth  |-> inner_depth(kwargs, labels),
               stages |-> source \o
                          << Stage("map", inner_parser(kwargs), Autotune),
                             Stage("map", inner_split_data(kwargs), Autotune),
                             Stage("batch", "", batch_size) >>,
               fault  |-> "none" ]
        ELSE [ parser |-> inner_parser(kwargs),
               tupler |-> inner_split_data(kwargs),
               depth  |-> inner_depth(kwargs, labels),
               stages |-> source,
               fault  |-> "TypeError" ]

\* ------------------------------------------------- iterating a pipeline
RunStage(st, s) ==
    CASE st.kind = "map"      -> {MapStage(s, st.fn)}
      [] st.kind = "shuffle"  -> ShuffleOutcomes(s, st.arg)
      [] st.kind = "batch"    -> {BatchStage(s, st.arg)}
      [] st.kind = "prefetch" -> {s}

RECURSIVE RunFrom(_, _, _)
RunFrom(stages, k, S) ==
    IF k > Len(stages) THEN S
    ELSE RunFrom(stages, k + 1, UNION { RunStage(stages[k], s) : s \in S })

\* Every sequence of elements one pass over the pipeline may deliver.
Deliveries(stages, d) ==
    IF stages[1].kind = "list_files"
    THEN RunFrom(stages, 3, InterleaveFiles(d))
    ELSE RunFrom(stages, 2, {ReadFilesInOrder(d, 1)})

\* ------------------------------------------------------- sample counting
\* records.reduce(np.int64(0), lambda x, y: x + y)
RECURSIVE Reduce(_, _)
Reduce(acc, s) == IF s = <<>> THEN acc ELSE Reduce(acc + Head(s), Tail(s))

\* The count get_sum_tensor would return if its reduction started at 1.
get_sum_tensor_from_one(records) == Reduce(1, [i \in DOMAIN records |-> 1])

\* get_sum_tensor: every element mapped to 1, the ones summed from 0.
get_sum_tensor(records) == Reduce(0, [i \in DOMAIN records |-> 1])

\* calculate_n_samples: the pipeline built for each of the three directories.
count_stages ==
    << Stage("list_files", "", 0),
       Stage("interleave", "create_tfrecord_from_file", Autotune),
       Stage("map", "parse_tfrecord_multi_label", Autotune),
       Stage("map", "to_tuple_multi_label", Autotune) >>

\* The options calculate_n_samples reads with config.get(key): an absent key
\* reads as None.
ConfigKeys ==
    { "PATCH_SHAPE_SINGLE", "FEATURES", "LABELS", "OUT_CLASS_NUM",
      "TRAINING_DIR", "TESTING_DIR", "VALIDATION_DIR" }

\* config.get(key) is None
IsNone(config, key) == key \notin DOMAIN config

\* str(config.get(key)): str(None) is the text "None".
StrOfGet(config, key) == IF IsNone(config, key) THEN "None" ELSE config[key]

Fault(kind) == [op |-> "fault", kind |-> kind]

\* The count of one directory, or the exception raised on the way:
\*   list_files(f"{str(config.get(dir_key))}/*") raises InvalidArgumentError
\*     when no file matches the pattern;
\*   map(parser) traces parse_tfrecord_multi_label: features + labels raises
\*     TypeError when either is None, FixedLenFeature(shape=[None, None])
\*     raises ValueError in parse_single_example;
\*   map(tupler) traces to_tuple_multi_label: tf.one_hot(depth=None) raises
\*     ValueError.
count_directory(config, fs, dir_key) ==
    LET name == StrOfGet(config, dir_key)
    IN  IF name \notin DOMAIN fs THEN {Fault("InvalidArgumentError")}
        ELSE IF IsNone(config, "FEATURES") \/ IsNone(config, "LABELS")
             THEN {Fault("TypeError")}
        ELSE IF IsNone(config, "PATCH_SHAPE_SINGLE") THEN {Fault("ValueError")}
        ELSE IF IsNone(config, "OUT_CLASS_NUM") THEN {Fault("ValueError")}
        ELSE { [op |-> "count", n |-> get_sum_tensor(s)]
               : s \in Deliveries(count_stages, fs[name]) }

\* calculate_n_samples(**config) over the directories fs: the three
\* directories are counted one after the other, and the first exception ends
\* the call.
calculate_n_samples(config, fs) ==
    { IF tr.op = "fault" THEN tr
      ELSE IF te.op = "fault" THEN te
      ELSE IF va.op = "fault" THEN va
      ELSE [ op |-> "n_samples",
             n_training_records   |-> tr.n,
             n_testing_records    |-> te.n,
             n_validation_records |-> va.n ]
      : tr \in count_directory(config, fs, "TRAINING_DIR"),
        te \in count_directory(config, fs, "TESTING_DIR"),
        va \in count_directory(config, fs, "VALIDATION_DIR") }

\* ------------------------------------------------------ random_transform
\* A 4-D tensor [batch, height, width, channels]: its shape and its entries.
Idx(shape) == (1..shape[1]) \X (1..shape[2]) \X (1..shape[3]) \X (1..shape[4])

Tensor(shape, at) == [shape |-> shape, at |-> at]

\* tf.image.flip_left_right: the width axis reversed.
flip_left_right(t) ==
    Tensor(t.shape,
           [i \in Idx(t.shape) |-> t.at[<<i[1], i[2], t.shape[3] + 1 - i[3], i[4]>>]])

\* tf.image.flip_up_down: the height axis reversed.
flip_up_down(t) ==
    Tensor(t.shape,
           [i \in Idx(t.shape) |-> t.at[<<i[1], t.shape[2] + 1 - i[2], i[3], i[4]>>]])

\* tf.image.rot90(t, k): k counter-clockwise quarter turns.
\*   k=1: transpose(reverse(t, width));  k=2: reverse(t, height and width);
\*   k=3: reverse(transpose(t), width).
rot90(t, k) ==
    LET H == t.shape[2]
        W == t.shape[3]
        turned == <<t.shape[1], W, H, t.shape[4]>>
    IN  CASE k = 1 -> Tensor(turned,
                        [i \in Idx(turned) |-> t.at[<<i[1], i[3], W + 1 - i[2], i[4]>>]])
          [] k = 2 -> Tensor(t.shape,
                        [i \in Idx(t.shape) |-> t.at[<<i[1], H + 1 - i[2], W + 1 - i[3], i[4]>>]])
          [] k = 3 -> Tensor(turned,
                        [i \in Idx(turned) |-> t.at[<<i[1], H + 1 - i[3], i[2], i[4]>>]])

\* The draw x = tf.random.uniform(()) lies in [0, 1).  It is modelled on a grid
\* of XSteps values per tenth: the draw k stands for x = k / (10 * XSteps), and
\* the threshold 0.10 * i of the code for the grid value Threshold(i).
XSteps == 4
Draws == 0..(10 * XSteps - 1)
Threshold(i) == i * XSteps

\* The branch random_transform would take if its second test read x > 0.10:
\* a draw of exactly 0.10 then falls through to the identity.
random_transform_branch_gap(x) ==
    IF x < Threshold(1) THEN 0
    ELSE IF x > Threshold(1) /\ x < Threshold(2) THEN 1
    ELSE IF x >= Threshold(2) /\ x < Threshold(3) THEN 2
    ELSE IF x >= Threshold(3) /\ x < Threshold(4) THEN 3
    ELSE IF x >= Threshold(4) /\ x < Threshold(5) THEN 4
    ELSE IF x >= Threshold(5) /\ x < Threshold(6) THEN 5
    ELSE IF x >= Threshold(6) /\ x < Threshold(7) THEN 6
    ELSE 7

\* The if / elif chain of random_transform: the branch entered for draw x
\* (0..6 in the order of the code, 7 for the final else).
random_transform_branch(x) ==
    IF x < Threshold(1) THEN 0
    ELSE IF x >= Threshold(1) /\ x < Threshold(2) THEN 1
    ELSE IF x >= Threshold(2) /\ x < Threshold(3) THEN 2
    ELSE IF x >= Threshold(3) /\ x < Threshold(4) THEN 3
    ELSE IF x >= Threshold(4) /\ x < Threshold(5) THEN 4
    ELSE IF x >= Threshold(5) /\ x < Threshold(6) THEN 5
    ELSE IF x >= Threshold(6) /\ x < Threshold(7) THEN 6
    ELSE 7

\* The assignment to `dataset` in each branch.
transform_dataset(branch, dataset) ==
    CASE branch = 0 -> flip_left_right(dataset)
      [] branch = 1 -> flip_up_down(dataset)
      [] branch = 2 -> flip_left_right(flip_up_down(dataset))
      [] branch = 3 -> rot90(dataset, 1)
      [] branch = 4 -> rot90(dataset, 2)
      [] branch = 5 -> rot90(dataset, 3)
      [] branch = 6 -> flip_left_right(rot90(dataset, 2))
      [] branch = 7 -> dataset

\* The label random_transform would return if its last transforming branch
\* turned the label without flipping it.
transform_label_no_flip(branch, label) ==
    CASE branch = 0 -> flip_left_right(label)
      [] branch = 1 -> flip_up_down(label)
      [] branch = 2 -> flip_left_right(flip_up_down(label))
      [] branch = 3 -> rot90(label, 1)
      [] branch = 4 -> rot90(label, 2)
      [] branch = 5 -> rot90(label, 3)
      [] branch = 6 -> rot90(label, 2)
      [] branch = 7 -> label

\* The assignment to `label` in each branch.
transform_label(branch, label) ==
    CASE branch = 0 -> flip_left_right(label)
      [] branch = 1 -> flip_up_down(label)
      [] branch = 2 -> flip_left_right(flip_up_down(label))
      [] branch = 3 -> rot90(label, 1)
      [] branch = 4 -> rot90(label, 2)
      [] branch = 5 -> rot90(label, 3)
      [] branch = 6 -> flip_left_right(rot90(label, 2))
      [] branch = 7 -> label

random_transform(x, dataset, label) ==
    [ op      |-> "transformed",
      branch  |-> random_transform_branch(x),
      dataset |-> transform_dataset(random_transform_branch(x), dataset),
      label   |-> transform_label(random_transform_branch(x), label) ]

\* ------------------------------------------------- float32 arithmetic
\* The index formulas compute in float32.  A value is NaN, +Inf / -Inf, or a
\* finite number.  A finite number is kept exactly as (n/d) * FLT_MAX^e with
\* e in {-1, 0, 1}: e = 0 for ordinary magnitudes, e = 1 for magnitudes of the
\* order of the largest finite float (FLT_MAX itself is n/d = 1), e = -1 for
\* quotients by such a magnitude.  Rounding is not modelled; overflow is:
\* a magnitude above FLT_MAX is +Inf / -Inf.  The square root of a positive
\* number that is not a perfect square is kept as "root" (a finite positive
\* irrational), and a number computed from one as "real" (finite, not zero,
\* value not tracked).
NaN == [k |-> "nan"]
Inf(s) == [k |-> "inf", s |-> s]
Zero == [k |-> "fin", e |-> 0, n |-> 0, d |-> 1]
Real == [k |-> "real"]

Abs(n) == IF n < 0 THEN -n ELSE n
Sign(n) == IF n < 0 THEN -1 ELSE 1

RECURSIVE GCD(_, _)
GCD(a, b) == IF b = 0 THEN a ELSE GCD(b, a % b)

\* The float for (n/d) * FLT_MAX^e, d # 0.
Norm(e, n, d) ==
    IF n = 0 THEN Zero
    ELSE LET g == GCD(Abs(n), Abs(d))
             nn == (Sign(d) * n) \div g
             dd == Abs(d) \div g
         IN  IF e >= 2 \/ (e = 1 /\ Abs(nn) > dd) THEN Inf(Sign(nn))
             ELSE IF e <= -2 THEN Zero
             ELSE [k |-> "fin", e |-> e, n |-> nn, d |-> dd]

Num(n) == Norm(0, n, 1)
Rat(n, d) == Norm(0, n, d)
FltMax == [k |-> "fin", e |-> 1, n |-> 1, d |-> 1]

Neg(a) ==
    CASE a.k = "nan" -> NaN
      [] a.k = "inf" -> Inf(-a.s)
      [] a.k = "fin" -> [a EXCEPT !.n = -a.n]
      [] a.k \in {"root", "real"} -> Real

Add(a, b) ==
    CASE a.k = "nan" \/ b.k = "nan" -> NaN
      [] a.k = "inf" /\ b.k = "inf" -> IF a.s = b.s THEN a ELSE NaN
      [] a.k = "inf" /\ b.k # "nan" /\ b.k # "inf" -> a
      [] b.k = "inf" /\ a.k # "nan" /\ a.k # "inf" -> b
      [] a.k = "fin" /\ b.k = "fin" ->
            IF a.e = b.e THEN Norm(a.e, a.n * b.d + b.n * a.d, a.d * b.d)
            ELSE IF a.n = 0 THEN b
            ELSE IF b.n = 0 THEN a
            ELSE IF a.e > b.e THEN a ELSE b

\* a - b; a rational less an irrational root is a finite number other than 0.
Sub(a, b) ==
    IF a.k = "fin" /\ b.k = "root" THEN Real ELSE Add(a, Neg(b))

Mul(a, b) ==
    CASE a.k = "nan" \/ b.k = "nan" -> NaN
      [] a.k = "inf" /\ b.k = "inf" -> Inf(a.s * b.s)
      [] a.k = "inf" /\ b.k = "fin" -> IF b.n = 0 THEN NaN ELSE Inf(a.s * Sign(b.n))
      [] a.k = "fin" /\ b.k = "inf" -> IF a.n = 0 THEN NaN ELSE Inf(b.s * Sign(a.n))
      [] a.k = "fin" /\ b.k = "fin" -> Norm(a.e + b.e, a.n * b.n, a.d * b.d)
      [] a.k = "fin" /\ b.k \in {"root", "real"} -> IF a.n = 0 THEN Zero ELSE Real
      [] a.k \in {"root", "real"} /\ b.k = "fin" -> IF b.n = 0 THEN Zero ELSE Real

\* a / b in IEEE arithmetic: x/0 is +Inf / -Inf, 0/0 and Inf/Inf are NaN.
Div(a, b) ==
    CASE a.k = "nan" \/ b.k = "nan" -> NaN
      [] a.k = "inf" /\ b.k = "inf" -> NaN
      [] a.k = "inf" /\ b.k = "fin" -> Inf(a.s * Sign(b.n))
      [] a.k = "inf" /\ b.k = "root" -> a
      [] a.k \in {"fin", "root", "real"} /\ b.k = "inf" -> Zero
      [] a.k = "fin" /\ b.k = "fin" ->
            IF b.n = 0 THEN (IF a.n = 0 THEN NaN ELSE Inf(Sign(a.n)))
            ELSE Norm(a.e - b.e, a.n * b.d, a.d * b.n)
      [] a.k = "fin" /\ b.k = "root" -> IF a.n = 0 THEN Zero ELSE Real
      [] a.k \in {"root", "real"} /\ b.k = "fin" ->
            IF b.n = 0 THEN Inf(1) ELSE Real

IsSquare(n) == \E r \in 0..n : r * r = n
Root(n) == CHOOSE r \in 0..n : r * r = n

\* tf.sqrt: NaN below 0.
Sqrt(a) ==
    CASE a.k = "nan" -> NaN
      [] a.k = "inf" -> IF a.s = 1 THEN a ELSE NaN
      [] a.k = "fin" /\ a.e = 0 ->
            IF a.n < 0 THEN NaN
            ELSE IF IsSquare(a.n) /\ IsSquare(a.d) THEN Rat(Root(a.n), Root(a.d))
            ELSE [k |-> "root", n |-> a.n, d |-> a.d]

\* tf.math.is_finite
is_finite(a) == a.k \in {"fin", "root", "real"}

\* tf.where(cond, x, y), on one element
where(cond, x, y) == IF cond THEN x ELSE y

\* ------------------------------------------- RemoteSensingFeatures
\* Every formula is element-wise: it is modelled on one element of its tensors.

normalized_difference(c1, c2) ==
    LET nd_f == Div(Sub(c1, c2), Add(c1, c2))
        nd_inf == Sub(c1, c2)
    IN  where(is_finite(nd_f), nd_f, nd_inf)

evi(c1, c2, c3) ==
    Mul(Rat(5, 2),
        Div(Sub(c1, c2),
            Add(Sub(Add(c1, Mul(Num(6), c2)), Mul(Rat(15, 2), c3)), Num(1))))

savi(c1, c2) ==
    Mul(Div(Sub(c1, c2), Add(Add(c1, c2), Rat(1, 2))), Rat(3, 2))

msavi(c1, c2) ==
    LET a == Add(Mul(Num(2), c1), Num(1))
    IN  Div(Sub(a, Sqrt(Sub(Mul(a, a), Mul(Num(8), Sub(c1, c2))))), Num(2))

mtvi2(c1, c2, c3) ==
    LET a == Add(Mul(Num(2), c1), Num(1))
    IN  Div(Mul(Rat(3, 2),
                Sub(Mul(Rat(6, 5), Sub(c1, c3)), Mul(Rat(5, 2), Sub(c2, c3)))),
            Sqrt(Sub(Sub(Mul(a, a), Sub(Mul(Num(6), c1), Mul(Num(5), Sqrt(c2)))),
                     Rat(1, 2))))

vari(c1, c2, c3) == Div(Sub(c1, c2), Sub(Add(c1, c2), c3))

tgi(c1, c2, c3) ==
    Div(Sub(Mul(Num(120), Sub(c2, c3)), Mul(Num(190), Sub(c2, c1))), Num(2))

ratio(c1, c2) ==
    LET ratio_f == Div(c1, c2)
        ratio_inf == c1
    IN  where(is_finite(ratio_f), ratio_f, ratio_inf)

nvi(c1, c2) ==
    LET nvi_f == Div(c1, Add(c1, c2))
        nvi_inf == c1
    IN  where(is_finite(nvi_f), nvi_f, nvi_inf)

diff_band(c1, c2) == Sub(c1, c2)

\* The 16 index bands both assembly functions compute from the 8 input
\* channels (red, green, blue, nir before; red, green, blue, nir during).
index_bands(t) ==
    LET red_before == t[1]
        green_before == t[2]
        blue_before == t[3]
        nir_before == t[4]
        red_during == t[5]
        green_during == t[6]
        blue_during == t[7]
        nir_during == t[8]
    IN  << normalized_difference(nir_before, red_before),
           normalized_difference(nir_during, red_during),
           evi(nir_before, red_before, blue_before),
           evi(nir_during, red_during, blue_during),
           normalized_difference(green_before, nir_before),
           normalized_difference(green_during, nir_during),
           savi(nir_before, red_before),
           savi(nir_during, red_during),
           msavi(nir_before, red_before),
           msavi(nir_during, red_during),
           mtvi2(nir_before, red_before, green_before),
           mtvi2(nir_during, red_during, green_during),
           vari(green_before, red_before, blue_before),
           vari(green_during, red_during, blue_during),
           tgi(green_before, red_before, blue_before),
           tgi(green_during, red_during, blue_during) >>

concatenate_features_for_cnn(t) ==
    index_bands(t) \o
    << diff_band(t[1], t[5]), diff_band(t[2], t[6]),
       diff_band(t[3], t[7]), diff_band(t[4], t[8]) >>

concatenate_features_for_dnn(t) == index_bands(t)

\* ------------------------------------------------- parsers and tuplers
\* A serialized example maps each name to an array; an array maps an index
\* (<<h, w>> in a patch, <<1>> in a DNN vector) to a value.  Names are numbered
\* in their lexicographic order: name 1 sorts before name 2, and so on.
\* A Python dict is the sequence of its <<key, value>> items in dict order.
Range(s) == { s[i] : i \in DOMAIN s }

Reverse(s) == [i \in DOMAIN s |-> s[Len(s) + 1 - i]]

RECURSIVE SortedSeq(_)
SortedSeq(S) ==
    IF S = {} THEN <<>>
    ELSE LET m == CHOOSE x \in S : \A y \in S : x <= y
         IN  <<m>> \o SortedSeq(S \ {m})

\* tf.io.parse_single_example(example_proto, dict(zip(keys, columns))): the
\* parsing op takes the keys of the feature description in sorted order and
\* returns a dict built in that order, whatever order `keys` lists them in.
parse_single_example(example_proto, keys) ==
    LET sorted == SortedSeq(Range(keys))
    IN  [i \in DOMAIN sorted |-> <<sorted[i], example_proto[sorted[i]]>>]

\* d[key] / d.get(key)
DictGet(d, key) == d[CHOOSE i \in DOMAIN d : d[i][1] = key][2]

\* what is left of d after d.pop(key)
DictPop(d, key) == SelectSeq(d, LAMBDA item : item[1] # key)

\* list(d.values())
DictValues(d) == [i \in DOMAIN d |-> d[i][2]]

\* tf.transpose(tf.stack(arrays, axis=0), [1, 2, 0]): channels last.
StackChannelsLast(arrays) ==
    [ i \in { idx \o <<c>> : idx \in DOMAIN arrays[1], c \in DOMAIN arrays }
        |-> arrays[i[Len(i)]][SubSeq(i, 1, Len(i) - 1)] ]

\* tf.transpose(arrays): the list is stacked on a new leading axis and every
\* axis is reversed, so [K, H, W] becomes [W, H, K] and [K, 1] becomes [1, K].
TransposeList(arrays) ==
    [ i \in { Reverse(idx) \o <<c>> : idx \in DOMAIN arrays[1], c \in DOMAIN arrays }
        |-> arrays[i[Len(i)]][Reverse(SubSeq(i, 1, Len(i) - 1))] ]

\* tf.expand_dims(v, axis): a new axis of length 1 before position axis + 1.
ExpandDims(v, axis) ==
    [ i \in { SubSeq(idx, 1, axis) \o <<1>> \o SubSeq(idx, axis + 1, Len(idx)) : idx \in DOMAIN v }
        |-> v[SubSeq(i, 1, axis) \o SubSeq(i, axis + 2, Len(i))] ]

\* tf.cast(label, tf.uint8) of an integral float.  Values 0..255 are kept.  A
\* value outside that range has no defined conversion: the build either wraps
\* it modulo 256 or saturates it.
Uint8Range == 256
CastModes == {"wrap", "saturate"}
CastUint8(v, mode) ==
    IF 0 <= v /\ v < Uint8Range THEN v
    ELSE IF mode = "wrap" THEN v % Uint8Range
    ELSE IF v < 0 THEN 0 ELSE Uint8Range - 1

\* tf.cast(label, tf.int32): every label of the model is in range.
CastInt32(v) == v

\* tf.one_hot(indices, depth): a vector of length depth per index, 1 at the
\* index and 0 elsewhere; all 0 for an index outside 0..depth-1.
one_hot(indices, depth) ==
    [ i \in DOMAIN indices |-> [c \in 0..(depth - 1) |-> IF c = indices[i] THEN 1 ELSE 0] ]

parse_tfrecord(example_proto, features, labels) ==
    LET keys == features \o labels
        inputs == parse_single_example(example_proto, keys)
        inputs_list == [i \in DOMAIN keys |-> DictGet(inputs, keys[i])]
    IN  [op |-> "parsed", stacked |-> StackChannelsLast(inputs_list)]

\* dataset[:, :, :, :n] and dataset[:, :, :, n:] of a tensor with C channels:
\* the channels before / from position n, which is clipped to C; n = None
\* (written <<>>, an int n being written <<n>>) leaves the bound open.
SliceStop(n_features, C) == IF n_features = <<>> THEN C ELSE Min(n_features[1], C)
SliceStart(n_features, C) == IF n_features = <<>> THEN 0 ELSE Min(n_features[1], C)

\* tf.concat([a, b], axis=-1)
ConcatChannels(a, b) ==
    LET shape == <<a.shape[1], a.shape[2], a.shape[3], a.shape[4] + b.shape[4]>>
    IN  Tensor(shape,
               [i \in Idx(shape) |->
                   IF i[4] <= a.shape[4] THEN a.at[i]
                   ELSE b.at[<<i[1], i[2], i[3], i[4] - a.shape[4]>>]])

\* The tuple to_tuple would return if it concatenated the labels before
\* their inverse.
to_tuple_labels_first(dataset, n_features, inverse_labels) ==
    LET B == dataset.shape[1]
        H == dataset.shape[2]
        W == dataset.shape[3]
        C == dataset.shape[4]
        stop == SliceStop(n_features, C)
        start == SliceStart(n_features, C)
        features == Tensor(<<B, H, W, stop>>,
                           [i \in Idx(<<B, H, W, stop>>) |-> dataset.at[i]])
        labels == Tensor(<<B, H, W, C - start>>,
                         [i \in Idx(<<B, H, W, C - start>>) |->
                             dataset.at[<<i[1], i[2], i[3], i[4] + start>>]])
        labels_inverse == Tensor(labels.shape,
                                 [i \in Idx(labels.shape) |-> Abs(labels.at[i] - 1)])
    IN  [ op |-> "tuple", features |-> features,
          label |-> IF inverse_labels THEN ConcatChannels(labels, labels_inverse)
                    ELSE labels ]

\* to_tuple on a batch [B, H, W, C].
to_tuple(dataset, n_features, inverse_labels) ==
    LET B == dataset.shape[1]
        H == dataset.shape[2]
        W == dataset.shape[3]
        C == dataset.shape[4]
        stop == SliceStop(n_features, C)
        start == SliceStart(n_features, C)
        features == Tensor(<<B, H, W, stop>>,
                           [i \in Idx(<<B, H, W, stop>>) |-> dataset.at[i]])
        labels == Tensor(<<B, H, W, C - start>>,
                         [i \in Idx(<<B, H, W, C - start>>) |->
                             dataset.at[<<i[1], i[2], i[3], i[4] + start>>]])
        labels_inverse == Tensor(labels.shape,
                                 [i \in Idx(labels.shape) |-> Abs(labels.at[i] - 1)])
    IN  [ op |-> "tuple", features |-> features,
          label |-> IF inverse_labels THEN ConcatChannels(labels_inverse, labels)
                    ELSE labels ]

parse_tfrecord_with_name(example_proto, features, labels) ==
    [op |-> "parsed", inputs |-> parse_single_example(example_proto, features \o labels)]

to_tuple_with_name(inputs, features, labels, n_classes, mode) ==
    [ op |-> "tuple",
      features |-> [i \in DOMAIN features |-> <<features[i], DictGet(inputs, features[i])>>],
      label |-> one_hot([i \in DOMAIN DictGet(inputs, labels[1])
                           |-> CastUint8(DictGet(inputs, labels[1])[i], mode)], n_classes) ]

parse_tfrecord_dnn(example_proto, features, labels) ==
    LET parsed_features == parse_single_example(example_proto, features \o labels)
        label == DictGet(parsed_features, labels[1])
    IN  [ op |-> "parsed",
          parsed_features |-> DictPop(parsed_features, labels[1]),
          label |-> [i \in DOMAIN label |-> CastInt32(label[i])] ]

to_tuple_dnn(dataset, label, depth) ==
    [ op |-> "tuple",
      features |-> TransposeList(DictValues(dataset)),
      label |-> one_hot(label, depth) ]

to_tuple_dnn_ai_platform(dataset, label, depth) ==
    [ op |-> "tuple",
      features |-> [i \in DOMAIN dataset |->
                       <<dataset[i][1], ExpandDims(ExpandDims(dataset[i][2], 0), 0)>>],
      label |-> ExpandDims(one_hot(label, depth), 0) ]

parse_tfrecord_multi_label(example_proto, features, labels) ==
    LET parsed_features == parse_single_example(example_proto, features \o labels)
    IN  [ op |-> "parsed",
          parsed_features |-> DictPop(parsed_features, labels[1]),
          label |-> DictGet(parsed_features, labels[1]) ]

to_tuple_multi_label(dataset, label, depth, x_only, mode) ==
    LET cast == [i \in DOMAIN label |-> CastUint8(label[i], mode)]
        parsed_dataset == TransposeList(DictValues(dataset))
    IN  IF x_only THEN [op |-> "tuple", features |-> parsed_dataset]
        ELSE [op |-> "tuple", features |-> parsed_dataset, label |-> one_hot(cast, depth)]

to_tuple_multi_label_ai_platform(dataset, label, depth, mode) ==
    LET cast == [i \in DOMAIN label |-> CastUint8(label[i], mode)]
    IN  [ op |-> "tuple",
          features |-> [i \in DOMAIN dataset |->
                           <<dataset[i][1], ExpandDims(dataset[i][2], 2)>>],
          label |-> one_hot(cast, depth) ]

\* ------------------------------------------------------------- the calls
DatasetKeys == {"IS_DNN", "USE_AI_PLATFORM", "training", "TRANSFORM_DATA"}
InnerKeys == {"dnn", "multi_label_unet", "training", "inverse_labels"}

\* Keyword arguments: any subset of the keys, each given a truth value.
Kwargs(keys) == UNION { [D -> BOOLEAN] : D \in SUBSET keys }

\* Keyword arguments of _get_dataset that also give depth.
WithDepth(kwargs, depths) ==
    { [key \in DOMAIN k \cup {"depth"} |-> IF key = "depth" THEN v ELSE k[key]]
      : k \in kwargs, v \in depths }

DatasetCalls(dirs, inner_kwargs, label_lists) ==
    [ op : {"get_dataset"}, files : dirs,
      batch_size : 1..MaxBatch, kwargs : Kwargs(DatasetKeys) ]
    \cup
    [ op : {"_get_dataset"}, files : dirs,
      batch_size : 1..MaxBatch, kwargs : inner_kwargs, labels : label_lists ]

\* A configuration that sets every option.
FullConfig ==
    [ key \in ConfigKeys |->
        CASE key = "PATCH_SHAPE_SINGLE" -> 1
          [] key = "FEATURES" -> <<1>>
          [] key = "LABELS" -> <<2>>
          [] key = "OUT_CLASS_NUM" -> 2
          [] key = "TRAINING_DIR" -> "train"
          [] key = "TESTING_DIR" -> "test"
          [] key = "VALIDATION_DIR" -> "val" ]

Restrict(f, D) == [x \in D |-> f[x]]

\* calculate_n_samples with every option set, over three directories of
\* record files.
CountCalls(dirs) ==
    { [ op |-> "calculate_n_samples", config |-> FullConfig,
        fs |-> [ name \in {"train", "test", "val"} |->
                   CASE name = "train" -> d[1]
                     [] name = "test" -> d[2]
                     [] name = "val" -> d[3] ] ]
      : d \in [1..3 -> dirs] }

\* calculate_n_samples with any subset of its options set, in a working
\* directory that holds any of the configured directories and possibly one
\* named "None".
ConfigCalls(dirs) ==
    { [ op |-> "calculate_n_samples", config |-> Restrict(FullConfig, K), fs |-> f ]
      : K \in SUBSET ConfigKeys,
        f \in UNION { [N -> dirs] : N \in SUBSET {"train", "test", "val", "None"} } }

\* Batches of square patches.  Every entry carries its own index, so that the
\* place an output entry came from can be read off its value.
Indexed(shape) == Tensor(shape, [i \in Idx(shape) |-> i])

TransformCalls(draws) ==
    { [ op |-> "random_transform", x |-> x,
        dataset |-> Indexed(<<b, n, n, cd>>), label |-> Indexed(<<b, n, n, cl>>) ]
      : x \in draws, b \in 1..MaxBatch, n \in 1..MaxPatch,
        cd \in 1..MaxChannels, cl \in 1..MaxChannels }

\* The value at index i of a batch handed to to_tuple: class values 0, 1, 2,
\* neighbouring channels differing at every pixel.
Cell(i, k) == (i[1] + i[2] + i[3] + i[4] + k) % 3

\* to_tuple on batches of up to MaxChannels + 1 channels, with n_features None
\* or 0 .. C + 1.
TupleCalls(variants) ==
    UNION { { [ op |-> "to_tuple",
                dataset |-> Tensor(<<b, n, n, c>>, [i \in Idx(<<b, n, n, c>>) |-> Cell(i, k)]),
                n_features |-> nf, inverse_labels |-> inv ]
              : nf \in {<<>>} \cup { <<m>> : m \in 0..(c + 1) }, inv \in BOOLEAN,
                k \in variants, b \in 1..MaxBatch, n \in 1..MaxPatch }
            : c \in 1..(MaxChannels + 1) }

\* Finite float32 inputs: small magnitudes and the two extreme finite floats.
SmallValues == {Num(-1), Num(0), Num(1)}
FiniteValues == SmallValues \cup {Num(2), Num(-2), Rat(1, 2), FltMax, Neg(FltMax)}

\* One pixel of the 8-channel input: the channels of the "before" image vary
\* freely, those of the "during" image are those of "before" or all 0.
PixelInputs(small) ==
    { [c \in 1..8 |-> IF c <= 4 THEN b[c] ELSE IF z THEN Num(0) ELSE b[c - 4]]
      : b \in [1..4 -> small], z \in BOOLEAN }

IndexCalls(small) ==
    [ op : {"normalized_difference", "ratio", "nvi"}, c1 : FiniteValues, c2 : FiniteValues ]
    \cup
    [ op : {"evi", "mtvi2", "vari"}, c1 : small, c2 : small, c3 : small ]
    \cup
    [ op : {"savi"}, c1 : small \cup {Rat(-1, 2)}, c2 : small ]
    \cup
    [ op : {"concatenate_features_for_cnn", "concatenate_features_for_dnn"},
      input_tensor : PixelInputs(small) ]

\* Names, and lists of distinct names.
Names == 1..MaxNames

NameLists(maxLen, excluded) ==
    { l \in UNION { [1..k -> Names \ excluded] : k \in 1..maxLen } :
        \A i, j \in DOMAIN l : i # j => l[i] # l[j] }

\* The indices of one array: a patch_size x patch_size patch, or the
\* one-element vector of the DNN records (patch_size 0 stands for it).
ArrayIndices(patch_size) ==
    IF patch_size = 0 THEN {<<1>>} ELSE (1..patch_size) \X (1..patch_size)

First(patch_size) == IF patch_size = 0 THEN <<1>> ELSE <<1, 1>>

\* The value stored under `name` at index idx: every array but the label
\* holds values of its own, from which its name can be read off.
Stored(name, idx) == 1000 * name + 10 * idx[1] + (IF Len(idx) > 1 THEN idx[2] ELSE 0)

\* An example for the keys features + labels.  The array of labels[1] holds
\* the class v at its first index and class 0 elsewhere.
Example(features, labels, patch_size, v) ==
    [ name \in Range(features \o labels) |->
        [ idx \in ArrayIndices(patch_size) |->
            IF name = labels[1]
            THEN (IF idx = First(patch_size) THEN v ELSE 0)
            ELSE Stored(name, idx) ] ]

ParserTuplerPairs ==
    { <<"parse_tfrecord", "none">>,
      <<"parse_tfrecord_with_name", "to_tuple_with_name">>,
      <<"parse_tfrecord_dnn", "to_tuple_dnn">>,
      <<"parse_tfrecord_dnn", "to_tuple_dnn_ai_platform">>,
      <<"parse_tfrecord_multi_label", "to_tuple_multi_label">>,
      <<"parse_tfrecord_multi_label", "to_tuple_multi_label_ai_platform">> }

PatchSizes(parser) == IF parser = "parse_tfrecord_dnn" THEN {0} ELSE 1..MaxPatch

\* Class counts (OUT_CLASS_NUM / depth) and label values, around the small
\* cases and around the range of uint8.
Depths == {1, 2, 3, Uint8Range, Uint8Range + 1}
LabelValues == {0, 1, 2, Uint8Range - 1, Uint8Range}

MapCall(pair, features, labels, patch_size, depth, v, x_only) ==
    [ op |-> "map_record", parser |-> pair[1], tupler |-> pair[2],
      features |-> features, labels |-> labels, patch_size |-> patch_size,
      depth |-> depth, x_only |-> x_only,
      example_proto |-> Example(features, labels, patch_size, v) ]

\* x_only is an argument of to_tuple_multi_label alone.
XOnly(tupler) == IF tupler = "to_tuple_multi_label" THEN BOOLEAN ELSE {FALSE}

\* Two families of calls: every configuration of distinct names with a small
\* depth, and every depth and label value with one feature and one label name.
MapCalls(pairs) ==
    UNION { { MapCall(pair, f, l, n, 2, v, x)
              : l \in NameLists(MaxLabels, Range(f)), n \in PatchSizes(pair[1]),
                v \in {0, 1}, x \in XOnly(pair[2]) }
            : pair \in pairs, f \in NameLists(MaxFeatures, {}) }
    \cup
    UNION { { MapCall(pair, <<1>>, <<2>>, n, depth, v, FALSE)
              : n \in PatchSizes(pair[1]), depth \in Depths, v \in LabelValues }
            : pair \in pairs }

\* ------------------------------------------------------------- actions
GetDataset ==
    /\ call.op = "get_dataset"
    /\ pipeline = None
    /\ pipeline' = get_dataset(call.batch_size, call.kwargs)
    /\ UNCHANGED <<call, result>>

GetDatasetInner ==
    /\ call.op = "_get_dataset"
    /\ pipeline = None
    /\ pipeline' = get_dataset_inner(call.batch_size, call.kwargs, call.labels)
    /\ UNCHANGED <<call, result>>

\* One pass over the assembled dataset (for batch in dataset: ...).
IterateDataset ==
    /\ call.op \in {"get_dataset", "_get_dataset"}
    /\ pipeline # None
    /\ pipeline.fault = "none"
    /\ result = None
    /\ \E out \in Deliveries(pipeline.stages, call.files) :
           result' = [op |-> "batches", batches |-> out]
    /\ UNCHANGED <<call, pipeline>>

CalculateNSamples ==
    /\ call.op = "calculate_n_samples"
    /\ result = None
    /\ result' \in calculate_n_samples(call.config, call.fs)
    /\ UNCHANGED <<call, pipeline>>

RandomTransform ==
    /\ call.op = "random_transform"
    /\ result = None
    /\ result' = random_transform(call.x, call.dataset, call.label)
    /\ UNCHANGED <<call, pipeline>>

Returned(v) == [op |-> "value", value |-> v]

NormalizedDifference ==
    /\ call.op = "normalized_difference" /\ result = None
    /\ result' = Returned(normalized_difference(call.c1, call.c2))
    /\ UNCHANGED <<call, pipeline>>

Ratio ==
    /\ call.op = "ratio" /\ result = None
    /\ result' = Returned(ratio(call.c1, call.c2))
    /\ UNCHANGED <<call, pipeline>>

Nvi ==
    /\ call.op = "nvi" /\ result = None
    /\ result' = Returned(nvi(call.c1, call.c2))
    /\ UNCHANGED <<call, pipeline>>

Evi ==
    /\ call.op = "evi" /\ result = None
    /\ result' = Returned(evi(call.c1, call.c2, call.c3))
    /\ UNCHANGED <<call, pipeline>>

Savi ==
    /\ call.op = "savi" /\ result = None
    /\ result' = Returned(savi(call.c1, call.c2))
    /\ UNCHANGED <<call, pipeline>>

Mtvi2 ==
    /\ call.op = "mtvi2" /\ result = None
    /\ result' = Returned(mtvi2(call.c1, call.c2, call.c3))
    /\ UNCHANGED <<call, pipeline>>

Vari ==
    /\ call.op = "vari" /\ result = None
    /\ result' = Returned(vari(call.c1, call.c2, call.c3))
    /\ UNCHANGED <<call, pipeline>>

ConcatenateFeaturesForCnn ==
    /\ call.op = "concatenate_features_for_cnn" /\ result = None
    /\ result' = [op |-> "bands", bands |-> concatenate_features_for_cnn(call.input_tensor)]
    /\ UNCHANGED <<call, pipeline>>

ConcatenateFeaturesForDnn ==
    /\ call.op = "concatenate_features_for_dnn" /\ result = None
    /\ result' = [op |-> "bands", bands |-> concatenate_features_for_dnn(call.input_tensor)]
    /\ UNCHANGED <<call, pipeline>>

ParseTfrecord ==
    /\ call.op = "map_record" /\ call.parser = "parse_tfrecord" /\ result = None
    /\ result' = parse_tfrecord(call.example_proto, call.features, call.labels)
    /\ UNCHANGED <<call, pipeline>>

ParseTfrecordWithName ==
    /\ call.op = "map_record" /\ call.parser = "parse_tfrecord_with_name" /\ result = None
    /\ result' = parse_tfrecord_with_name(call.example_proto, call.features, call.labels)
    /\ UNCHANGED <<call, pipeline>>

ParseTfrecordDnn ==
    /\ call.op = "map_record" /\ call.parser = "parse_tfrecord_dnn" /\ result = None
    /\ result' = parse_tfrecord_dnn(call.example_proto, call.features, call.labels)
    /\ UNCHANGED <<call, pipeline>>

ParseTfrecordMultiLabel ==
    /\ call.op = "map_record" /\ call.parser = "parse_tfrecord_multi_label" /\ result = None
    /\ result' = parse_tfrecord_multi_label(call.example_proto, call.features, call.labels)
    /\ UNCHANGED <<call, pipeline>>

ToTuple ==
    /\ call.op = "to_tuple" /\ result = None
    /\ result' = to_tuple(call.dataset, call.n_features, call.inverse_labels)
    /\ UNCHANGED <<call, pipeline>>

ToTupleWithName ==
    /\ call.op = "map_record" /\ call.tupler = "to_tuple_with_name" /\ result.op = "parsed"
    /\ \E mode \in CastModes :
          result' = to_tuple_with_name(result.inputs, call.features, call.labels,
                                       call.depth, mode)
    /\ UNCHANGED <<call, pipeline>>

ToTupleDnn ==
    /\ call.op = "map_record" /\ call.tupler = "to_tuple_dnn" /\ result.op = "parsed"
    /\ result' = to_tuple_dnn(result.parsed_features, result.label, call.depth)
    /\ UNCHANGED <<call, pipeline>>

ToTupleDnnAiPlatform ==
    /\ call.op = "map_record" /\ call.tupler = "to_tuple_dnn_ai_platform"
    /\ result.op = "parsed"
    /\ result' = to_tuple_dnn_ai_platform(result.parsed_features, result.label, call.depth)
    /\ UNCHANGED <<call, pipeline>>

ToTupleMultiLabel ==
    /\ call.op = "map_record" /\ call.tupler = "to_tuple_multi_label" /\ result.op = "parsed"
    /\ \E mode \in CastModes :
          result' = to_tuple_multi_label(result.parsed_features, result.label,
                                         call.depth, call.x_only, mode)
    /\ UNCHANGED <<call, pipeline>>

ToTupleMultiLabelAiPlatform ==
    /\ call.op = "map_record" /\ call.tupler = "to_tuple_multi_label_ai_platform"
    /\ result.op = "parsed"
    /\ \E mode \in CastModes :
          result' = to_tuple_multi_label_ai_platform(result.parsed_features, result.label,
                                                     call.depth, mode)
    /\ UNCHANGED <<call, pipeline>>

\* ------------------------------------------------------ specifications
InitDataset ==
    /\ call \in DatasetCalls(Dirs(MaxFiles, MaxRecords), Kwargs(InnerKeys), {<<1>>})
    /\ pipeline = None /\ result = None
NextDataset == GetDataset \/ GetDatasetInner \/ IterateDataset
SpecDataset == InitDataset /\ [][NextDataset]_vars

\* Calls that leave options out: calculate_n_samples with part of its
\* configuration, get_dataset and _get_dataset with part of their keyword
\* arguments.
InitConfig ==
    /\ call \in ConfigCalls(Dirs(1, MaxCountRecords))
                 \cup DatasetCalls(Dirs(1, 1), Kwargs(InnerKeys) \cup WithDepth(Kwargs(InnerKeys), {3}),
                                   NameLists(MaxLabels, {}))
    /\ pipeline = None /\ result = None
NextConfig == CalculateNSamples \/ GetDataset \/ GetDatasetInner \/ IterateDataset
SpecConfig == InitConfig /\ [][NextConfig]_vars

InitTuple == call \in TupleCalls(0..2) /\ pipeline = None /\ result = None
NextTuple == ToTuple
SpecTuple == InitTuple /\ [][NextTuple]_vars

InitCount == call \in CountCalls(Dirs(MaxCountFiles, MaxCountRecords)) /\ pipeline = None /\ result = None
NextCount == CalculateNSamples
SpecCount == InitCount /\ [][NextCount]_vars

InitTransform == call \in TransformCalls(Draws) /\ pipeline = None /\ result = None
NextTransform == RandomTransform
SpecTransform == InitTransform /\ [][NextTransform]_vars

InitIndex == call \in IndexCalls(SmallValues) /\ pipeline = None /\ result = None
NextIndex ==
    \/ NormalizedDifference \/ Ratio \/ Nvi \/ Evi \/ Savi \/ Mtvi2 \/ Vari
    \/ ConcatenateFeaturesForCnn \/ ConcatenateFeaturesForDnn
SpecIndex == InitIndex /\ [][NextIndex]_vars

InitMap ==
    /\ call \in MapCalls(ParserTuplerPairs)
    /\ pipeline = None
    /\ result = None
NextMap ==
    \/ ParseTfrecord \/ ParseTfrecordWithName \/ ParseTfrecordDnn \/ ParseTfrecordMultiLabel
    \/ ToTupleWithName \/ ToTupleDnn \/ ToTupleDnnAiPlatform
    \/ ToTupleMultiLabel \/ ToTupleMultiLabelAiPlatform
SpecMap == InitMap /\ [][NextMap]_vars

\* The configurations with one label name.
InitMapOneLabel ==
    /\ call \in { c \in MapCalls(ParserTuplerPairs) : Len(c.labels) = 1 }
    /\ pipeline = None
    /\ result = None
SpecMapOneLabel == InitMapOneLabel /\ [][NextMap]_vars

\* Ordinary magnitudes only: the calls of SpecIndex without the extreme floats.
InitIndexOrdinary ==
    /\ call \in { c \in IndexCalls(SmallValues) :
                    c.op \in {"normalized_difference", "ratio", "nvi"}
                        => (c.c1.e = 0 /\ c.c2.e = 0) }
    /\ pipeline = None
    /\ result = None
SpecIndexOrdinary == InitIndexOrdinary /\ [][NextIndex]_vars

\* --------------------------------------------------------- properties
Flag(key, default) == Get(call.kwargs, key, default)

CeilDiv(n, b) == (n + b - 1) \div b

\* The places <<batch, position>> at which record rec is delivered.
Occurrences(batches, rec) ==
    UNION { { <<j, p>> : p \in { q \in DOMAIN batches[j].recs : batches[j].recs[q] = rec } }
            : j \in DOMAIN batches }

\* The record files of the directory configured under dir_key.
DirOf(dir_key) == call.fs[call.config[dir_key]]

\* C1: calculate_n_samples returns, for each of the three directories, the
\* total number of records over the files of that directory, whatever order
\* the interleaved read delivers them in; a directory without records counts 0.
C1_CountIsTotalOfRecords ==
    result.op = "n_samples" =>
        /\ result.n_training_records = SumSeq(DirOf("TRAINING_DIR"))
        /\ result.n_testing_records = SumSeq(DirOf("TESTING_DIR"))
        /\ result.n_validation_records = SumSeq(DirOf("VALIDATION_DIR"))

\* C1 witness: two files with a record each are counted as 2, next to a
\* directory whose files hold no record, counted as 0.
C1_Witness ==
    /\ result.op = "n_samples"
    /\ DirOf("TRAINING_DIR") = <<1, 1>>
    /\ result.n_training_records = 2
    /\ SumSeq(DirOf("VALIDATION_DIR")) = 0
    /\ result.n_validation_records = 0

\* C2: with training false or absent, one pass over the pipeline of
\* get_dataset (and of the dnn branch of _get_dataset) yields ceil(n/b) batches, all of b records but the last, which
\* holds the remaining n - b*(ceil(n/b)-1); every record is in exactly one batch.
C2_BatchesCoverAllRecords ==
    (call.op \in {"get_dataset", "_get_dataset"} /\ ~Flag("training", FALSE)
        /\ result.op = "batches") =>
        LET n == SumSeq(call.files)
            b == call.batch_size
            k == CeilDiv(n, b)
            out == result.batches
        IN  /\ Len(out) = k
            /\ \A j \in 1..(k - 1) : Len(out[j].recs) = b
            /\ k > 0 => Len(out[k].recs) = n - b * (k - 1)
            /\ \A f \in DOMAIN call.files : \A i \in 1..call.files[f] :
                   Cardinality(Occurrences(out, <<f, i>>)) = 1

\* C2 witness: 3 records in batches of 2 come out as a batch of 2 and one of 1.
C2_Witness ==
    /\ call.op = "get_dataset" /\ ~Flag("training", FALSE) /\ result.op = "batches"
    /\ SumSeq(call.files) = 3 /\ call.batch_size = 2
    /\ Len(result.batches) = 2
    /\ Len(result.batches[1].recs) = 2 /\ Len(result.batches[2].recs) = 1

\* C3: with training false or absent the assembled pipeline holds no shuffle
\* stage and no augmentation (random_transform) stage.
C3_NoShuffleNoAugmentWhenNotTraining ==
    (call.op \in {"get_dataset", "_get_dataset"} /\ pipeline # None
        /\ pipeline.fault = "none" /\ ~Flag("training", FALSE)) =>
        \A i \in DOMAIN pipeline.stages :
            /\ pipeline.stages[i].kind # "shuffle"
            /\ pipeline.stages[i].fn # "random_transform"

\* The positions of the stages that map fn.
MapsOf(stages, fn) == { i \in DOMAIN stages : stages[i].kind = "map" /\ stages[i].fn = fn }

\* C4: the (parser, tupler) pair is a function of the flags alone, the DNN flag
\* deciding before the AI-platform flag (get_dataset) and before
\* multi_label_unet (_get_dataset); the parser is mapped before the tupler, on
\* the pipeline and on every element it delivers.
C4_ParserTuplerSelection ==
    (call.op \in {"get_dataset", "_get_dataset"} /\ pipeline # None) =>
        /\ call.op = "get_dataset" =>
             <<pipeline.parser, pipeline.tupler>> =
                CASE Flag("IS_DNN", FALSE) /\ Flag("USE_AI_PLATFORM", FALSE)
                        -> <<"parse_tfrecord_dnn", "to_tuple_dnn_ai_platform">>
                  [] Flag("IS_DNN", FALSE) /\ ~Flag("USE_AI_PLATFORM", FALSE)
                        -> <<"parse_tfrecord_dnn", "to_tuple_dnn">>
                  [] ~Flag("IS_DNN", FALSE) /\ Flag("USE_AI_PLATFORM", FALSE)
                        -> <<"parse_tfrecord_multi_label", "to_tuple_multi_label_ai_platform">>
                  [] OTHER
                        -> <<"parse_tfrecord_multi_label", "to_tuple_multi_label">>
        /\ call.op = "_get_dataset" =>
             <<pipeline.parser, pipeline.tupler>> =
                CASE Flag("dnn", FALSE) -> <<"parse_tfrecord_dnn", "to_tuple_dnn">>
                  [] ~Flag("dnn", FALSE) /\ Flag("multi_label_unet", FALSE)
                        -> <<"parse_tfrecord_multi_label", "to_tuple_multi_label">>
                  [] OTHER -> <<"parse_tfrecord", "to_tuple">>
        /\ pipeline.fault = "none" =>
             /\ Cardinality(MapsOf(pipeline.stages, pipeline.parser)) = 1
             /\ Cardinality(MapsOf(pipeline.stages, pipeline.tupler)) = 1
             /\ \A i \in MapsOf(pipeline.stages, pipeline.parser) :
                \A j \in MapsOf(pipeline.stages, pipeline.tupler) : i < j
        /\ result.op = "batches" =>
             \A j \in DOMAIN result.batches :
                SubSeq(result.batches[j].fns, 1, 2) = <<pipeline.parser, pipeline.tupler>>

\* C4 witness: with both IS_DNN and USE_AI_PLATFORM set the DNN pair for the AI
\* platform is mapped over a delivered batch.
C4_Witness ==
    /\ call.op = "get_dataset" /\ result.op = "batches"
    /\ Flag("IS_DNN", FALSE) /\ Flag("USE_AI_PLATFORM", FALSE)
    /\ pipeline.tupler = "to_tuple_dnn_ai_platform"
    /\ Len(result.batches) > 0

\* The transform each branch number stands for, as an index map: the input
\* entry that lands on output position i of an n x n patch.
Named(branch, n, i) ==
    CASE branch = 0 -> <<i[1], i[2], n + 1 - i[3], i[4]>>           \* horizontal flip
      [] branch = 1 -> <<i[1], n + 1 - i[2], i[3], i[4]>>           \* vertical flip
      [] branch = 2 -> <<i[1], n + 1 - i[2], n + 1 - i[3], i[4]>>   \* both flips
      [] branch = 3 -> <<i[1], i[3], n + 1 - i[2], i[4]>>           \* rot90 k=1
      [] branch = 4 -> <<i[1], n + 1 - i[2], n + 1 - i[3], i[4]>>   \* rot90 k=2
      [] branch = 5 -> <<i[1], n + 1 - i[3], i[2], i[4]>>           \* rot90 k=3
      [] branch = 6 -> <<i[1], n + 1 - i[2], i[3], i[4]>>           \* flip of rot180
      [] branch = 7 -> i                                            \* identity

\* C5: one draw x selects exactly one branch: branch i (0..6) iff
\* 0.10*i <= x < 0.10*(i+1), the identity iff x >= 0.70; the branch applies the
\* transform it is named for.
C5_BranchPartition ==
    result.op = "transformed" =>
        /\ result.branch \in 0..7
        /\ \A i \in 0..6 :
              (result.branch = i) <=> (Threshold(i) <= call.x /\ call.x < Threshold(i + 1))
        /\ (result.branch = 7) <=> (call.x >= Threshold(7))
        /\ \A i \in Idx(call.dataset.shape) :
              result.dataset.at[i] = Named(result.branch, call.dataset.shape[2], i)

\* C5 witness: a draw of exactly 0.10 enters the second branch (vertical flip).
C5_Witness ==
    /\ result.op = "transformed"
    /\ call.x = Threshold(1)
    /\ result.branch = 1
    /\ call.dataset.shape[2] = 2
    /\ result.dataset.at[<<1, 1, 1, 1>>] = <<1, 2, 1, 1>>

\* The batch and spatial part <<b, h, w>> of an index.
Place(i) == <<i[1], i[2], i[3]>>

\* C6: whichever branch is taken, the features and the label undergo the same
\* geometric transform: the entries found at one output position came from one
\* and the same input position in both tensors.
C6_SameTransformOnBoth ==
    result.op = "transformed" =>
        /\ Place(result.dataset.shape) = Place(result.label.shape)
        /\ \A i \in Idx(result.dataset.shape) : \A j \in Idx(result.label.shape) :
              Place(i) = Place(j) =>
                  /\ Place(result.dataset.at[i]) = Place(result.label.at[j])
                  /\ result.dataset.at[i][4] = i[4]
                  /\ result.label.at[j][4] = j[4]

\* C6 witness: the flip of the half turn moves both the feature and the label
\* entry of row 2 into row 1 of a 2 x 2 patch.
C6_Witness ==
    /\ result.op = "transformed"
    /\ result.branch = 6
    /\ call.dataset.shape[2] = 2
    /\ Place(result.dataset.at[<<1, 1, 1, 1>>]) = <<1, 2, 1>>
    /\ Place(result.label.at[<<1, 1, 1, 1>>]) = <<1, 2, 1>>

IsZero(a) == a.k = "fin" /\ a.n = 0

\* The divisor of each dividing formula, as the code writes it.
Denominator(op, c1, c2, c3) ==
    CASE op \in {"normalized_difference", "nvi"} -> Add(c1, c2)
      [] op = "ratio" -> c2
      [] op = "evi" -> Add(Sub(Add(c1, Mul(Num(6), c2)), Mul(Rat(15, 2), c3)), Num(1))
      [] op = "savi" -> Add(Add(c1, c2), Rat(1, 2))
      [] op = "mtvi2" ->
            Sqrt(Sub(Sub(Mul(Add(Mul(Num(2), c1), Num(1)), Add(Mul(Num(2), c1), Num(1))),
                         Sub(Mul(Num(6), c1), Mul(Num(5), Sqrt(c2)))), Rat(1, 2)))
      [] op = "vari" -> Sub(Add(c1, c2), c3)

\* C8: for finite c1, c2 the three guarded formulas return a finite value;
\* where the denominator is 0 it is the fallback (c1 - c2 for
\* normalized_difference, c1 for ratio and nvi), and where the quotient is
\* finite it is the quotient.
C8_GuardedRatiosAreFinite ==
    (call.op \in {"normalized_difference", "ratio", "nvi"} /\ result.op = "value") =>
        LET num == IF call.op = "normalized_difference" THEN Sub(call.c1, call.c2) ELSE call.c1
            den == Denominator(call.op, call.c1, call.c2, Zero)
            fallback == IF call.op = "normalized_difference"
                        THEN Sub(call.c1, call.c2) ELSE call.c1
        IN  /\ is_finite(result.value)
            /\ IsZero(den) => result.value = fallback
            /\ is_finite(Div(num, den)) => result.value = Div(num, den)

\* The divisor behind each of the 16 index bands (msavi and tgi divide by 2).
BandDenominators(t) ==
    << Denominator("normalized_difference", t[4], t[1], Zero),
       Denominator("normalized_difference", t[8], t[5], Zero),
       Denominator("evi", t[4], t[1], t[3]),
       Denominator("evi", t[8], t[5], t[7]),
       Denominator("normalized_difference", t[2], t[4], Zero),
       Denominator("normalized_difference", t[6], t[8], Zero),
       Denominator("savi", t[4], t[1], Zero),
       Denominator("savi", t[8], t[5], Zero),
       Num(2), Num(2),
       Denominator("mtvi2", t[4], t[1], t[2]),
       Denominator("mtvi2", t[8], t[5], t[6]),
       Denominator("vari", t[2], t[1], t[3]),
       Denominator("vari", t[6], t[5], t[7]),
       Num(2), Num(2) >>

\* C9: a zero denominator never surfaces: every dividing formula returns a
\* finite value where its denominator is 0, and so does every band the two
\* assembly functions stack.
C9_ZeroDenominatorNeverSurfaces ==
    /\ (call.op \in {"normalized_difference", "ratio", "nvi", "evi", "savi", "mtvi2", "vari"}
          /\ result.op = "value"
          /\ IsZero(Denominator(call.op, call.c1, call.c2,
                                IF call.op \in {"evi", "mtvi2", "vari"} THEN call.c3 ELSE Zero)))
          => is_finite(result.value)
    /\ result.op = "bands" =>
          \A i \in 1..16 :
              IsZero(BandDenominators(call.input_tensor)[i]) => is_finite(result.bands[i])

\* The one-hot vector a tupler produced for the label at index idx of the
\* label array (to_tuple_dnn_ai_platform puts a leading axis before it).
HotAt(idx) ==
    IF call.tupler = "to_tuple_dnn_ai_platform"
    THEN result.label[<<1>> \o idx]
    ELSE result.label[idx]

HasLabel == result.op = "tuple" /\ ~call.x_only

\* C7: for every depth and every label value v with 0 <= v < depth, the
\* encoding a tupler produces has exactly one entry equal to 1, at index v,
\* and 0 everywhere else, the cast to the tupler's integer type included.
C7_OneHotAtLabelValue ==
    (call.op = "map_record" /\ HasLabel) =>
        \A idx \in ArrayIndices(call.patch_size) :
            LET v == call.example_proto[call.labels[1]][idx]
            IN  (0 <= v /\ v < call.depth) =>
                    /\ DOMAIN HotAt(idx) = 0..(call.depth - 1)
                    /\ \A c \in 0..(call.depth - 1) : HotAt(idx)[c] = (IF c = v THEN 1 ELSE 0)

\* The name of the array a value was stored under.
NameOf(value) == value \div 1000

\* C10: channel i of the re-stacked record is the array stored under the i-th
\* name of features + labels: parse_tfrecord stacks len(features) +
\* len(labels) channels in that order, and the feature tensor of the
\* multi-label and DNN tuplers holds the array of features[i] in channel i.
C10_ChannelOrderIsConfiguredOrder ==
    /\ (call.op = "map_record" /\ call.parser = "parse_tfrecord" /\ result.op = "parsed") =>
          LET keys == call.features \o call.labels
          IN  /\ DOMAIN result.stacked =
                    { idx \o <<c>> : idx \in ArrayIndices(call.patch_size), c \in 1..Len(keys) }
              /\ \A idx \in ArrayIndices(call.patch_size) : \A c \in 1..Len(keys) :
                    result.stacked[idx \o <<c>>] = call.example_proto[keys[c]][idx]
    /\ (call.op = "map_record" /\ call.tupler \in {"to_tuple_multi_label", "to_tuple_dnn"}
          /\ result.op = "tuple") =>
          \A idx \in ArrayIndices(call.patch_size) : \A c \in 1..Len(call.features) :
              /\ (Reverse(idx) \o <<c>>) \in DOMAIN result.features
              /\ NameOf(result.features[Reverse(idx) \o <<c>>]) = call.features[c]

\* The options without a default: calculate_n_samples reads each of them.
RequiredKeys == ConfigKeys

\* The keyword arguments with every absent option set to its declared default.
WithDefaults(kwargs, defaults) ==
    [ key \in DOMAIN kwargs \cup DOMAIN defaults |->
        IF key \in DOMAIN kwargs THEN kwargs[key] ELSE defaults[key] ]

DatasetDefaults ==
    [ key \in DatasetKeys |-> (key = "TRANSFORM_DATA") ]

InnerDefaults(labels) ==
    [ key \in InnerKeys \cup {"depth"} |-> IF key = "depth" THEN Len(labels) ELSE FALSE ]

\* C11: an absent option with a declared default is replaced by that default
\* (the call assembles what it assembles with the default written out); an
\* absent option without a default makes calculate_n_samples end in a fault
\* that reaches the caller: it never returns counts computed with the absent
\* option used as a value.
C11_MissingKeysDefaultOrFault ==
    /\ (call.op = "get_dataset" /\ pipeline # None) =>
          pipeline = get_dataset(call.batch_size, WithDefaults(call.kwargs, DatasetDefaults))
    /\ (call.op = "_get_dataset" /\ pipeline # None) =>
          pipeline = get_dataset_inner(call.batch_size,
                                       WithDefaults(call.kwargs, InnerDefaults(call.labels)),
                                       call.labels)
    /\ (call.op = "calculate_n_samples" /\ result # None) =>
          \A key \in RequiredKeys :
              IsNone(call.config, key) => result.op = "fault"

\* The positions of the stages of one kind.
StagesOf(stages, kind) == { i \in DOMAIN stages : stages[i].kind = kind }

\* The invocations of fn that record r of a delivered batch went through.
CallsOf(batch, r, fn) == { k \in DOMAIN batch.calls[r] : batch.calls[r][k][1] = fn }

\* C12: where the chained stages hold a shuffle, a batch and a
\* random_transform stage, every shuffle precedes every batch and every batch
\* precedes random_transform; random_transform is then called once per
\* delivered batch: all records of the j-th batch went through its j-th call.
C12_ShuffleBatchAugmentOrder ==
    /\ (call.op \in {"get_dataset", "_get_dataset"} /\ pipeline # None) =>
          \A s \in StagesOf(pipeline.stages, "shuffle") :
          \A b \in StagesOf(pipeline.stages, "batch") :
          \A a \in MapsOf(pipeline.stages, "random_transform") : s < b /\ b < a
    /\ (result.op = "batches" /\ MapsOf(pipeline.stages, "random_transform") # {}) =>
          \A j \in DOMAIN result.batches :
          \A r \in DOMAIN result.batches[j].recs :
              LET batch == result.batches[j]
              IN  /\ Cardinality(CallsOf(batch, r, "random_transform")) = 1
                  /\ \A k \in CallsOf(batch, r, "random_transform") :
                         batch.calls[r][k] = <<"random_transform", j>>

\* C12 witness: a training pipeline of get_dataset delivers a batch of two
\* records, both transformed by the first call of random_transform.
C12_Witness ==
    /\ call.op = "get_dataset" /\ Flag("training", FALSE) /\ result.op = "batches"
    /\ StagesOf(pipeline.stages, "shuffle") # {}
    /\ MapsOf(pipeline.stages, "random_transform") # {}
    /\ Len(result.batches) > 0
    /\ Len(result.batches[1].recs) = 2
    /\ \A r \in 1..2 : <<"random_transform", 1>> \in Range(result.batches[1].calls[r])

\* C13: in a pipeline that augments, the multi-label path (parser
\* parse_tfrecord_multi_label) maps random_transform before the tupler, and
\* the single-label path (parser parse_tfrecord) batches, maps the tupler and
\* only then maps random_transform; so the two paths never order augment and
\* tupler alike.
C13_AugmentTuplerOrderByPath ==
    (call.op \in {"get_dataset", "_get_dataset"} /\ pipeline # None
        /\ pipeline.fault = "none") =>
        \A a \in MapsOf(pipeline.stages, "random_transform") :
        \A t \in MapsOf(pipeline.stages, pipeline.tupler) :
            /\ pipeline.parser = "parse_tfrecord_multi_label" => a < t
            /\ pipeline.parser = "parse_tfrecord" =>
                  /\ t < a
                  /\ \A b \in StagesOf(pipeline.stages, "batch") : b < t

\* C14: every call of get_dataset with USE_AI_PLATFORM set returns a pipeline
\* whose last stage is a prefetch with automatic buffering: no map, shuffle
\* or batch stage is chained after it.
C14_PrefetchLastOnAiPlatform ==
    (call.op = "get_dataset" /\ Flag("USE_AI_PLATFORM", FALSE) /\ pipeline # None) =>
        LET stages == pipeline.stages
        IN  /\ pipeline.fault = "none"
            /\ stages[Len(stages)] = Stage("prefetch", "", Autotune)
            /\ StagesOf(stages, "prefetch") = {Len(stages)}

\* The channel part of to_tuple's contract that does not depend on
\* inverse_labels: for n_features = n in 0..C the features are channels
\* 1..n of the batch, in order.
FeaturesAreLeadingChannels ==
    LET d == call.dataset
        n == call.n_features[1]
    IN  /\ result.features.shape = <<d.shape[1], d.shape[2], d.shape[3], n>>
        /\ \A i \in Idx(result.features.shape) : result.features.at[i] = d.at[i]

\* Without inverse_labels the label is channels n+1..C of the batch, in order.
LabelIsTrailingChannels ==
    LET d == call.dataset
        n == call.n_features[1]
    IN  /\ result.label.shape = <<d.shape[1], d.shape[2], d.shape[3], d.shape[4] - n>>
        /\ \A i \in Idx(result.label.shape) :
               result.label.at[i] = d.at[<<i[1], i[2], i[3], i[4] + n>>]

\* The trailing channel (beyond n_features) that label channel c is built from.
LabelSource(i, c) == <<i[1], i[2], i[3], c + call.n_features[1]>>

InPartitionRange ==
    /\ call.op = "to_tuple" /\ result.op = "tuple"
    /\ call.n_features # <<>>
    /\ call.n_features[1] <= call.dataset.shape[4]

\* C15 as stated: features and label partition the channels at n_features;
\* with inverse_labels the label is (1 - label) followed by label, for every
\* label value.
C15_ToTuplePartitionOneMinusLabel ==
    InPartitionRange =>
        /\ FeaturesAreLeadingChannels
        /\ ~call.inverse_labels => LabelIsTrailingChannels
        /\ call.inverse_labels =>
              LET d == call.dataset
                  L == d.shape[4] - call.n_features[1]
              IN  /\ result.label.shape = <<d.shape[1], d.shape[2], d.shape[3], 2 * L>>
                  /\ \A i \in Idx(result.label.shape) :
                         result.label.at[i] =
                            IF i[4] <= L THEN 1 - d.at[LabelSource(i, i[4])]
                            ELSE d.at[LabelSource(i, i[4] - L)]

\* C15 amended: features and label partition the channels at n_features; with
\* inverse_labels the label is |label - 1| followed by label, which is
\* (1 - label, label) wherever the label value is at most 1.
C15_ToTuplePartitionAbsInverse ==
    InPartitionRange =>
        /\ FeaturesAreLeadingChannels
        /\ ~call.inverse_labels => LabelIsTrailingChannels
        /\ call.inverse_labels =>
              LET d == call.dataset
                  L == d.shape[4] - call.n_features[1]
              IN  /\ result.label.shape = <<d.shape[1], d.shape[2], d.shape[3], 2 * L>>
                  /\ \A i \in Idx(result.label.shape) :
                         IF i[4] <= L
                         THEN LET v == d.at[LabelSource(i, i[4])]
                              IN  /\ result.label.at[i] = (IF v >= 1 THEN v - 1 ELSE 1 - v)
                                  /\ v <= 1 => result.label.at[i] = 1 - v
                         ELSE result.label.at[i] = d.at[LabelSource(i, i[4] - L)]

\* C15 witness: a batch of 3 channels split at n_features = 2 with
\* inverse_labels: the label 0 of the first pixel comes out as (1, 0).
C15_Witness ==
    /\ InPartitionRange /\ call.inverse_labels
    /\ call.dataset.shape[4] = 3 /\ call.n_features = <<2>>
    /\ call.dataset.at[<<1, 1, 1, 3>>] = 0
    /\ result.features.shape[4] = 2
    /\ result.label.shape[4] = 2
    /\ result.label.at[<<1, 1, 1, 1>>] = 1
    /\ result.label.at[<<1, 1, 1, 2>>] = 0

\* The entries of a tupler's feature output, by name: the keys of the dict
\* the AI-platform tuplers return, the channels of the tensor the others stack.
NamedFeatures == call.tupler \in {"to_tuple_dnn_ai_platform", "to_tuple_multi_label_ai_platform"}

FeatureNames ==
    IF NamedFeatures THEN { result.features[i][1] : i \in DOMAIN result.features }
    ELSE { NameOf(result.features[i]) : i \in DOMAIN result.features }

FeatureCount ==
    IF NamedFeatures THEN Len(result.features)
    ELSE Cardinality({ i[Len(i)] : i \in DOMAIN result.features })

\* C16: for every feature list F and label list L, more than one label name
\* included, the multi-label and DNN parsers return the entry named L[0] as
\* the label, and the feature output of their tuplers holds exactly the
\* len(F) entries named in F and none of the entries named in L.
C16_NoLabelInFeatures ==
    (call.op = "map_record"
        /\ call.parser \in {"parse_tfrecord_dnn", "parse_tfrecord_multi_label"}) =>
        /\ result.op = "parsed" =>
              /\ DOMAIN result.label = ArrayIndices(call.patch_size)
              /\ \A idx \in ArrayIndices(call.patch_size) :
                     result.label[idx] = call.example_proto[call.labels[1]][idx]
        /\ result.op = "tuple" =>
              /\ FeatureNames = Range(call.features)
              /\ FeatureCount = Len(call.features)
              /\ FeatureNames \cap Range(call.labels) = {}

====
